---- MODULE Spec2Model ----
(***************************************************************************)
(* Model of synchrosm: matching of external objects to OSM nodes           *)
(* (matching.py), the import and drift-detection flows (main.py), the      *)
(* editing helpers (osm_api.py) and the sqlite store (database.py).        *)
(*                                                                         *)
(* Coordinates are integers in units of 0.00005 degree, so that the index  *)
(* margin 0.0001 is 2 units and the default search box 0.001 is 20 units.  *)
(* A Python value that may be None is a sequence of length at most one:    *)
(* None is <<>> and a present value v is <<v>>.                            *)
(***************************************************************************)
EXTENDS Integers, Sequences, FiniteSets, TLC

VARIABLES
    objects,          \* match_objects: argument objects
    nodes,            \* match_objects: argument nodes
    tag_with_id,      \* match_objects: argument tag_with_id ("" is falsy)
    rtree_search_box, \* match_objects: argument rtree_search_box
    store_in_db,      \* match_objects: argument store_in_db (TRUE: a path is given)
    matched_nodes,    \* match_objects: the returned list
    mo_pc,            \* match_objects: "start", "returned" or "TypeError"
    mappings,         \* match_objects: the list given to upsert_node_id_mappings
    db_mappings,      \* table node_id_mappings of the sqlite store
    db_nodes,         \* table nodes of the sqlite store: id -> Node
    osm,              \* the nodes of the remote map: id -> Node
    api_calls,        \* the requests sent to the editing API by the last call
    api_input,        \* create_nodes / update_nodes: the list given
    api_pc,           \* create_nodes / update_nodes: "start", "returned", "raised"
    api_results,      \* create_nodes / update_nodes: the returned list
    data,             \* import_data: argument data
    id_pc,            \* import_data: "start", "returned", "TypeError", "KeyError", "raised"
    id_results,       \* import_data: the returned dictionary
    id_run,           \* import_data: the number of runs made over data
    id_earlier,       \* import_data: the positions in data of the objects for
                      \* which a run before the last one created a node
    update_data_in_db, \* compare_db_data_to_api: argument update_data_in_db
    nodes_in_db,      \* compare_db_data_to_api: the batch read from the store
    cmp_pc,           \* compare_db_data_to_api: "start", "returned"
    cmp_results,      \* compare_db_data_to_api: the ComparisonResults
    cmp_errors        \* compare_db_data_to_api: the errors logged, in order

vars == <<objects, nodes, tag_with_id, rtree_search_box, store_in_db,
          matched_nodes, mo_pc, mappings, db_mappings, db_nodes, osm,
          api_calls, api_input, api_pc, api_results, data, id_pc, id_results,
          id_run, id_earlier,
          update_data_in_db, nodes_in_db, cmp_pc, cmp_results, cmp_errors>>

matchVars == <<objects, nodes, tag_with_id, rtree_search_box, store_in_db,
               matched_nodes, mo_pc, mappings>>

apiVars == <<api_calls, api_input, api_pc, api_results>>

importVars == <<data, id_pc, id_results, id_run, id_earlier>>

compareVars == <<update_data_in_db, nodes_in_db, cmp_pc, cmp_results, cmp_errors>>

(***************************************************************************)
(* Python values                                                           *)
(***************************************************************************)
None == <<>>

Some(v) == <<v>>

IsNone(x) == x = <<>>

Val(x) == x[1]

\* dict.get(key): the value, or None when the key is absent
DictGet(d, k) == IF k \in DOMAIN d THEN Some(d[k]) ELSE None

\* truth value of an optional string: None and "" are falsy
TruthyStr(x) == ~IsNone(x) /\ Val(x) # ""

\* truth value of an optional number: None and 0 are falsy
TruthyNum(x) == ~IsNone(x) /\ Val(x) # 0

\* a dictionary with one more, or one replaced, entry
Put(f, k, v) == [x \in DOMAIN f \cup {k} |-> IF x = k THEN v ELSE f[x]]

Max(S) == CHOOSE x \in S : \A y \in S : y <= x

(***************************************************************************)
(* models.py                                                               *)
(***************************************************************************)
\* Node(id, version, latitude, longitude, tags, metadata); coords is the
\* pair (latitude, longitude); the metadata, which no operation reads, is
\* left out
Node(id, version, coords, tags) ==
    [id |-> id, version |-> version, latitude |-> coords[1],
     longitude |-> coords[2], tags |-> tags]

(***************************************************************************)
(* Bounds of the model                                                     *)
(***************************************************************************)
MaxNodes == 2

MaxObjects == 2

\* nodes in the remote map before a call
MaxRemoteNodes == 1

\* changes in one call of create_nodes or update_nodes
MaxBatch == 2

\* nodes in the local store before a call of compare_db_data_to_api
MaxStored == 2

\* successive runs of import_data over the same data
MaxRuns == 2

(***************************************************************************)
(* matching.py                                                             *)
(***************************************************************************)
\* 0.0001 degree, the half-width under which a node is inserted in the index
Margin == 2

\* 0.001 degree, the default of rtree_search_box
DefaultSearchBox == 20

\* cos(latitude) in hundredths; every latitude of the model is 50 degrees
\* north within a few units, where cos is 0.64
CosE2(lat) == 64

\* Haversine distance, as the quantity that orders it: the distance is
\* radius * 2 * asin(sqrt(a)), increasing in
\*   a = sin(dlat/2)^2 + cos(lat1) * cos(lat2) * sin(dlon/2)^2,
\* and for the separations a rectangle query returns (a few units) a is
\* proportional to dlat^2 + cos(lat1) * cos(lat2) * dlon^2, here times 10^4.
distance(lat1, lon1, lat2, lon2) ==
    LET latitude_difference == lat2 - lat1
        longitude_difference == lon2 - lon1
    IN  latitude_difference * latitude_difference * 10000
        + CosE2(lat1) * CosE2(lat2) * longitude_difference * longitude_difference

Rect(min_x, min_y, max_x, max_y) ==
    [min_x |-> min_x, min_y |-> min_y, max_x |-> max_x, max_y |-> max_y]

\* rtreelib Rect.intersects: the rectangles overlap. No two rectangles of
\* the model merely touch, so the treatment of a shared border plays no part.
Intersects(a, b) ==
    /\ a.min_x <= b.max_x
    /\ b.min_x <= a.max_x
    /\ a.min_y <= b.max_y
    /\ b.min_y <= a.max_y

\* lookup_dict: tag value -> node, a later node replacing an earlier one
RECURSIVE BuildLookup(_, _, _)
BuildLookup(ns, tag, acc) ==
    IF ns = <<>> THEN acc
    ELSE LET node == Head(ns)
             v == DictGet(node.tags, tag)
         IN  BuildLookup(Tail(ns), tag,
                 IF TruthyStr(v)
                 THEN [k \in DOMAIN acc \cup {Val(v)} |->
                          IF k = Val(v) THEN node ELSE acc[k]]
                 ELSE acc)

\* a lookup in which the first node carrying a value keeps it
RECURSIVE BuildLookupFirstWins(_, _, _)
BuildLookupFirstWins(ns, tag, acc) ==
    IF ns = <<>> THEN acc
    ELSE LET node == Head(ns)
             v == DictGet(node.tags, tag)
         IN  BuildLookupFirstWins(Tail(ns), tag,
                 IF TruthyStr(v) /\ Val(v) \notin DOMAIN acc
                 THEN [k \in DOMAIN acc \cup {Val(v)} |->
                          IF k = Val(v) THEN node ELSE acc[k]]
                 ELSE acc)

lookup_dict_first_wins(ns, tag) ==
    IF tag # "" THEN BuildLookupFirstWins(ns, tag, <<>>) ELSE <<>>

lookup_dict(ns, tag) ==
    IF tag # "" THEN BuildLookup(ns, tag, <<>>) ELSE <<>>

\* the arithmetic on node.longitude and node.latitude raises TypeError on None
IndexRaises(ns) ==
    \E i \in 1..Len(ns) : IsNone(ns[i].longitude) \/ IsNone(ns[i].latitude)

\* the entries of the R-tree, in insertion order
IndexEntries(ns) ==
    [i \in 1..Len(ns) |->
        [data |-> ns[i],
         rect |-> Rect(Val(ns[i].longitude) - Margin, Val(ns[i].latitude) - Margin,
                       Val(ns[i].longitude) + Margin, Val(ns[i].latitude) + Margin)]]

\* t.query(search_area): the entries whose rectangle intersects the search
\* area; a tree of at most one leaf yields them in insertion order
Query(entries, search_area) ==
    SelectSeq(entries, LAMBDA e : Intersects(e.rect, search_area))

\* the query results left unfiltered
FilterIdTag_Unfiltered(results, tag) == results

\* results filtered on the id tag (key present in the node's tags)
FilterIdTag(results, tag) ==
    IF tag # ""
    THEN SelectSeq(results, LAMBDA x : tag \notin DOMAIN x.data.tags)
    ELSE results

\* sorted(results, key=...): Python's sort is stable; insertion sort is too
RECURSIVE InsertByKey(_, _, _)
InsertByKey(x, sorted, obj) ==
    IF sorted = <<>> THEN <<x>>
    ELSE LET key(e) == distance(Val(obj.latitude), Val(obj.longitude),
                                Val(e.data.latitude), Val(e.data.longitude))
         IN  IF key(x) < key(Head(sorted))
             THEN <<x>> \o sorted
             ELSE <<Head(sorted)>> \o InsertByKey(x, Tail(sorted), obj)

RECURSIVE SortedByDistance(_, _)
SortedByDistance(results, obj) ==
    IF results = <<>> THEN <<>>
    ELSE LET n == Len(results)
         IN  InsertByKey(results[n], SortedByDistance(SubSeq(results, 1, n - 1), obj), obj)

\* the rectangle of half-width rtree_search_box around the object
search_area(obj, box) ==
    Rect(Val(obj.longitude) - box, Val(obj.latitude) - box,
         Val(obj.longitude) + box, Val(obj.latitude) + box)

\* lookup_dict.get(obj.get('id')): the node, or None
ExactIdMatch(lookup, obj) ==
    IF lookup # <<>> THEN DictGet(lookup, obj.id) ELSE None

\* the proximity phase without the sort: the first entry of the filtered
\* query results
NearestNeighbour_Unsorted(obj, entries, tag, box) ==
    LET results == FilterIdTag(Query(entries, search_area(obj, box)), tag)
    IN  IF Len(results) > 0 THEN Some(results[1].data) ELSE None

\* the proximity phase for one object: the nearest entry of the filtered
\* query results, or None when there is none
NearestNeighbour(obj, entries, tag, box) ==
    LET results == FilterIdTag(Query(entries, search_area(obj, box)), tag)
    IN  IF Len(results) > 0
        THEN Some(SortedByDistance(results, obj)[1].data)
        ELSE None

\* the arithmetic on obj.get('longitude') and obj.get('latitude') raises
\* TypeError on None
SearchAreaRaises(obj) == IsNone(obj.longitude) \/ IsNone(obj.latitude)

\* the loop over the objects: the list of results, or TypeError
RECURSIVE MatchLoop(_, _, _, _, _, _)
MatchLoop(objs, lookup, entries, tag, box, acc) ==
    IF objs = <<>> THEN [pc |-> "returned", matched |-> acc]
    ELSE LET obj == Head(objs)
             hit == ExactIdMatch(lookup, obj)
         IN  IF ~IsNone(hit)
             THEN MatchLoop(Tail(objs), lookup, entries, tag, box, Append(acc, hit))
             ELSE IF SearchAreaRaises(obj)
             THEN [pc |-> "TypeError", matched |-> <<>>]
             ELSE MatchLoop(Tail(objs), lookup, entries, tag, box,
                            Append(acc, NearestNeighbour(obj, entries, tag, box)))

\* match_objects up to the returned list
match_objects(objs, ns, tag, box) ==
    IF IndexRaises(ns)
    THEN [pc |-> "TypeError", matched |-> <<>>]
    ELSE MatchLoop(objs, lookup_dict(ns, tag), IndexEntries(ns), tag, box, <<>>)

\* the mappings with the matched nodes filtered before the zip, which pairs
\* the k-th matched node with the k-th object
NodeIdMappings_FilteredFirst(matched, objs) ==
    LET found == SelectSeq(matched, LAMBDA n : ~IsNone(n))
    IN  [k \in 1..(IF Len(found) < Len(objs) THEN Len(found) ELSE Len(objs)) |->
            [osm_id |-> Val(found[k]).id, object_id |-> objs[k].id]]

\* mappings = [NodeIdMapping(n.id, o.get('id')) for n, o in zip(...) if n is not None]
RECURSIVE NodeIdMappings(_, _)
NodeIdMappings(matched, objs) ==
    IF matched = <<>> \/ objs = <<>> THEN <<>>
    ELSE (IF ~IsNone(Head(matched))
          THEN <<[osm_id |-> Val(Head(matched)).id, object_id |-> Head(objs).id]>>
          ELSE <<>>)
         \o NodeIdMappings(Tail(matched), Tail(objs))

(***************************************************************************)
(* database.py                                                             *)
(***************************************************************************)
SeqToSet(s) == {s[i] : i \in 1..Len(s)}

\* DB.upsert_node_id_mappings: rows keyed by (osm_id, object_id)
upsert_node_id_mappings(table, list_of_mappings) ==
    table \cup SeqToSet(list_of_mappings)

\* DB.select_node_id_mappings: object_id_to_osm_id.keys()
object_ids_in_osm(table) == { row.object_id : row \in table }

\* DB.upsert_nodes: rows keyed by id, the last write winning
RECURSIVE upsert_nodes(_, _)
upsert_nodes(table, list_of_nodes) ==
    IF list_of_nodes = <<>> THEN table
    ELSE upsert_nodes(Put(table, Head(list_of_nodes).id, Head(list_of_nodes)),
                      Tail(list_of_nodes))

\* the rows of the table nodes in the order of their integer key
RECURSIVE RowsInIdOrder(_)
RowsInIdOrder(table) ==
    IF DOMAIN table = {} THEN <<>>
    ELSE LET m == Max(DOMAIN table)
         IN  Append(RowsInIdOrder([x \in DOMAIN table \ {m} |-> table[x]]), table[m])

\* DB.select_nodes(limit): every row, or the first limit rows (limit 0 and
\* None are both falsy)
select_nodes(table, limit) ==
    LET rows == RowsInIdOrder(table)
    IN  IF limit > 0 /\ limit < Len(rows) THEN SubSeq(rows, 1, limit) ELSE rows

\* DB.delete_nodes
delete_nodes(table, list_of_ids) ==
    [x \in DOMAIN table \ SeqToSet(list_of_ids) |-> table[x]]

(***************************************************************************)
(* osm_api.py                                                              *)
(*                                                                         *)
(* The editing API is the environment: each request of a call may fail.    *)
(* The requests of a call are numbered 1 (ChangesetCreate), 2 .. n + 1     *)
(* (the n changes) and n + 2 (ChangesetClose); fail_at is the number of    *)
(* the request that raises, 0 when none does.                              *)
(***************************************************************************)
Request(op, arg, ok) == [op |-> op, arg |-> arg, ok |-> ok]

\* the identifier the remote map assigns to a new node
NewId(remote) == IF DOMAIN remote = {} THEN 1 ELSE Max(DOMAIN remote) + 1

\* api.NodeCreate(node): the node as the remote map now holds it
NodeCreate(remote, d) == Node(NewId(remote), 1, <<d.lat, d.lon>>, d.tag)

\* the requests of create_nodes from the k-th on
RECURSIVE CreateLoop(_, _, _, _, _, _)
CreateLoop(dicts, k, fail_at, remote, results, calls) ==
    IF dicts = <<>>
    THEN \* api.ChangesetClose()
         IF fail_at = k
         THEN [pc |-> "raised", results |-> <<>>, remote |-> remote,
               calls |-> Append(calls, Request("ChangesetClose", <<>>, FALSE))]
         ELSE [pc |-> "returned", results |-> results, remote |-> remote,
               calls |-> Append(calls, Request("ChangesetClose", <<>>, TRUE))]
    ELSE IF fail_at = k
         THEN [pc |-> "raised", results |-> <<>>, remote |-> remote,
               calls |-> Append(calls, Request("NodeCreate", Head(dicts), FALSE))]
         ELSE LET n == NodeCreate(remote, Head(dicts))
              IN  CreateLoop(Tail(dicts), k + 1, fail_at, Put(remote, n.id, n),
                             Append(results, n),
                             Append(calls, Request("NodeCreate", Head(dicts), TRUE)))

create_nodes(list_of_dicts, remote, fail_at) ==
    IF fail_at = 1
    THEN [pc |-> "raised", results |-> <<>>, remote |-> remote,
          calls |-> <<Request("ChangesetCreate", <<>>, FALSE)>>]
    ELSE CreateLoop(list_of_dicts, 2, fail_at, remote, <<>>,
                    <<Request("ChangesetCreate", <<>>, TRUE)>>)

\* api.NodeUpdate(node.as_api_dict()): the next version of the node
NodeUpdate(node) ==
    Node(node.id, node.version + 1, <<node.latitude, node.longitude>>, node.tags)

\* the requests of update_nodes from the k-th on
RECURSIVE UpdateLoop(_, _, _, _, _, _)
UpdateLoop(ns, k, fail_at, remote, results, calls) ==
    IF ns = <<>>
    THEN \* api.ChangesetClose()
         IF fail_at = k
         THEN [pc |-> "raised", results |-> <<>>, remote |-> remote,
               calls |-> Append(calls, Request("ChangesetClose", <<>>, FALSE))]
         ELSE [pc |-> "returned", results |-> results, remote |-> remote,
               calls |-> Append(calls, Request("ChangesetClose", <<>>, TRUE))]
    ELSE IF fail_at = k
         THEN [pc |-> "raised", results |-> <<>>, remote |-> remote,
               calls |-> Append(calls, Request("NodeUpdate", Head(ns), FALSE))]
         ELSE LET n == NodeUpdate(Head(ns))
              IN  UpdateLoop(Tail(ns), k + 1, fail_at, Put(remote, n.id, n),
                             Append(results, n),
                             Append(calls, Request("NodeUpdate", Head(ns), TRUE)))

update_nodes(list_of_nodes, remote, fail_at) ==
    IF fail_at = 1
    THEN [pc |-> "raised", results |-> <<>>, remote |-> remote,
          calls |-> <<Request("ChangesetCreate", <<>>, FALSE)>>]
    ELSE UpdateLoop(list_of_nodes, 2, fail_at, remote, <<>>,
                    <<Request("ChangesetCreate", <<>>, TRUE)>>)

(***************************************************************************)
(* Inputs of match_objects                                                 *)
(***************************************************************************)
\* (latitude, longitude) of the nodes: 4 units north of the reference point
\* (50 N, 20 E), 6 units east of it, 21 units east of it
NodeCoords ==
    { <<Some(1000004), Some(400000)>>, <<Some(1000000), Some(400006)>>,
      <<Some(1000000), Some(400021)>> }

\* tags of a node: no id tag, or the id tag "A"
NodeTags == { <<>>, [ref |-> "A"] }

\* a node is a located node without or with an id tag, a located node with
\* an empty id tag, or a node deleted upstream (no coordinates) that carries
\* the id tag
NodeShapes ==
    (NodeCoords \X NodeTags)
    \cup { << <<Some(1000004), Some(400000)>>, [ref |-> ""] >>,
           << <<None, None>>, [ref |-> "A"] >> }

\* lists of nodes with distinct identifiers 1, 2, ...
NodeLists ==
    UNION { { [i \in 1..n |-> Node(i, 1, sh[i][1], sh[i][2])] :
                sh \in [1..n -> NodeShapes] } :
            n \in 0..MaxNodes }

\* (latitude, longitude) of the objects: the reference point, and 10 units
\* west of it, from where the node 21 units east is out of reach
ObjectCoords ==
    { <<Some(1000000), Some(400000)>>, <<Some(1000000), Some(399990)>> }

ObjectIds == { "A", "B" }

Object(id, coords) == [id |-> id, latitude |-> coords[1], longitude |-> coords[2]]

\* an object has an identifier and coordinates, or an empty identifier, or
\* the identifier "A" and no 'latitude' and 'longitude' keys
ObjectShapes ==
    (ObjectIds \X ObjectCoords)
    \cup { <<"", <<Some(1000000), Some(400000)>> >>, <<"A", <<None, None>> >> }

ObjectLists ==
    UNION { { [i \in 1..n |-> Object(sh[i][1], sh[i][2])] :
                sh \in [1..n -> ObjectShapes] } :
            n \in 0..MaxObjects }

TagParams == { "ref", "" }

\* a row left by an earlier run
EarlierMappings == { [osm_id |-> 1, object_id |-> "B"] }

(***************************************************************************)
(* The call of match_objects                                               *)
(***************************************************************************)
\* no call of match_objects made
IdleMatch ==
    /\ objects = <<>>
    /\ nodes = <<>>
    /\ tag_with_id = "ref"
    /\ rtree_search_box = DefaultSearchBox
    /\ store_in_db = FALSE
    /\ matched_nodes = <<>>
    /\ mo_pc = "start"
    /\ mappings = <<>>

\* no call of create_nodes or update_nodes made
IdleApi ==
    /\ api_calls = <<>>
    /\ api_input = <<>>
    /\ api_pc = "start"
    /\ api_results = <<>>

\* no call of import_data made
IdleImport ==
    /\ data = <<>>
    /\ id_pc = "start"
    /\ id_results = <<>>
    /\ id_run = 0
    /\ id_earlier = {}

\* no call of compare_db_data_to_api made
IdleCompare ==
    /\ update_data_in_db = FALSE
    /\ nodes_in_db = <<>>
    /\ cmp_pc = "start"
    /\ cmp_results = <<>>
    /\ cmp_errors = <<>>

InitMatch ==
    /\ objects \in ObjectLists
    /\ nodes \in NodeLists
    /\ tag_with_id \in TagParams
    /\ rtree_search_box = DefaultSearchBox
    /\ store_in_db \in BOOLEAN
    /\ matched_nodes = <<>>
    /\ mo_pc = "start"
    /\ mappings = <<>>
    /\ db_mappings = EarlierMappings
    /\ db_nodes = <<>>
    /\ osm = <<>>
    /\ IdleApi
    /\ IdleImport
    /\ IdleCompare

\* the whole call; r and m are each computed once
MatchObjects ==
    /\ mo_pc = "start"
    /\ \E r \in {match_objects(objects, nodes, tag_with_id, rtree_search_box)} :
       \E m \in {IF r.pc = "returned" /\ store_in_db
                THEN NodeIdMappings(r.matched, objects)
                ELSE <<>>} :
           /\ mo_pc' = r.pc
           /\ matched_nodes' = r.matched
           /\ mappings' = m
           /\ db_mappings' =
                 IF r.pc = "returned" /\ store_in_db
                 THEN upsert_node_id_mappings(db_mappings, m)
                 ELSE db_mappings
    /\ UNCHANGED <<objects, nodes, tag_with_id, rtree_search_box, store_in_db>>
    /\ UNCHANGED <<db_nodes, osm, apiVars, importVars, compareVars>>

SpecMatch == InitMatch /\ [][MatchObjects]_vars

(***************************************************************************)
(* Properties of match_objects                                             *)
(***************************************************************************)
Returned == mo_pc = "returned"

\* node j carries the value v under tag_with_id
Carries(j, v) ==
    /\ tag_with_id \in DOMAIN nodes[j].tags
    /\ nodes[j].tags[tag_with_id] = v

\* node j carries a non-empty value under tag_with_id
CarriesId(j) ==
    /\ tag_with_id \in DOMAIN nodes[j].tags
    /\ nodes[j].tags[tag_with_id] # ""

\* the last node, in list order, that carries v
LastCarrying(v) ==
    CHOOSE j \in 1..Len(nodes) :
        Carries(j, v) /\ \A k \in (j + 1)..Len(nodes) : ~Carries(k, v)

\* object i has an exact-id match
HasExactId(i) ==
    /\ tag_with_id # ""
    /\ objects[i].id # ""
    /\ \E j \in 1..Len(nodes) : Carries(j, objects[i].id)

\* the nodes whose index rectangle the rectangle query of object i returns
InRange(i) ==
    { j \in 1..Len(nodes) :
        Intersects(IndexEntries(nodes)[j].rect,
                   search_area(objects[i], rtree_search_box)) }

\* those of them that survive the id-tag filter
Eligible(i) ==
    { j \in InRange(i) : tag_with_id = "" \/ tag_with_id \notin DOMAIN nodes[j].tags }

Dist(i, j) ==
    distance(Val(objects[i].latitude), Val(objects[i].longitude),
             Val(nodes[j].latitude), Val(nodes[j].longitude))

C2_NoNodeMatchedTwice ==
    Returned =>
        \A i, j \in 1..Len(objects) :
            (i # j /\ objects[i].id # objects[j].id /\ ~IsNone(matched_nodes[i])) =>
                matched_nodes[i] # matched_nodes[j]

\* C3: an object without exact-id match gets the eligible node of minimum
\* distance, the first one in index order among equally distant ones, and
\* None exactly when no node is eligible.
C3_NearestEligible ==
    Returned =>
        \A i \in 1..Len(objects) :
            ~HasExactId(i) =>
                IF Eligible(i) = {}
                THEN IsNone(matched_nodes[i])
                ELSE \E j \in Eligible(i) :
                        /\ matched_nodes[i] = Some(nodes[j])
                        /\ \A k \in Eligible(i) :
                              \/ Dist(i, j) < Dist(i, k)
                              \/ Dist(i, j) = Dist(i, k) /\ j <= k

\* C3 witness: two eligible nodes at the same distance, the first of them is
\* the result.
C3_Witness ==
    /\ Returned
    /\ \E i \in 1..Len(objects) :
          /\ ~HasExactId(i)
          /\ \E j, k \in Eligible(i) :
                j < k /\ Dist(i, j) = Dist(i, k) /\ matched_nodes[i] = Some(nodes[j])

\* C4: with a non-empty tag_with_id, a node carrying a non-empty id is the
\* result only for an object whose identifier is that id, and an object
\* without exact-id match whose nodes in range all carry an id gets None.
C4_IdNodesOnlyByExactId ==
    (Returned /\ tag_with_id # "") =>
        \A i \in 1..Len(objects) :
            /\ \A j \in 1..Len(nodes) :
                  (matched_nodes[i] = Some(nodes[j]) /\ CarriesId(j)) =>
                      objects[i].id = nodes[j].tags[tag_with_id]
            /\ (~HasExactId(i) /\ \A j \in InRange(i) : CarriesId(j)) =>
                  IsNone(matched_nodes[i])

\* C4 witness: an object without exact-id match next to a node that carries
\* an id, no other node in range, gets None.
C4_Witness ==
    /\ Returned
    /\ tag_with_id # ""
    /\ \E i \in 1..Len(objects) :
          /\ ~HasExactId(i)
          /\ InRange(i) # {}
          /\ \A j \in InRange(i) : CarriesId(j)
          /\ IsNone(matched_nodes[i])

\* C5 as stated: with a node without coordinates in the list (and objects
\* that all have coordinates) the run completes.
C5_RunCompletesWithDeletedNode ==
    ( /\ mo_pc # "start"
      /\ \E j \in 1..Len(nodes) : IsNone(nodes[j].latitude) /\ IsNone(nodes[j].longitude)
      /\ \A i \in 1..Len(objects) : ~SearchAreaRaises(objects[i]) )
    => Returned

\* the positions of the matched objects
MatchedPositions == { i \in 1..Len(matched_nodes) : ~IsNone(matched_nodes[i]) }

\* the position of the k-th matched object
KthMatched(k) ==
    CHOOSE i \in MatchedPositions :
        Cardinality({ h \in MatchedPositions : h <= i }) = k

MappingOf(i) ==
    [osm_id |-> Val(matched_nodes[i]).id, object_id |-> objects[i].id]

\* C6: with store_in_db set, the mappings upserted are, in order, the pairs
\* (matched node id, object id) of the matched objects, one per matched
\* object; the table afterwards is the earlier table plus these pairs.
C6_MappingsOfMatchedObjects ==
    (Returned /\ store_in_db) =>
        /\ Len(mappings) = Cardinality(MatchedPositions)
        /\ \A k \in 1..Len(mappings) : mappings[k] = MappingOf(KthMatched(k))
        /\ db_mappings = EarlierMappings \cup { MappingOf(i) : i \in MatchedPositions }

\* C6 witness: an unmatched object followed by a matched one with another
\* identifier, and the earlier row still in the table.
C6_Witness ==
    /\ Returned
    /\ store_in_db
    /\ Len(objects) = 2
    /\ IsNone(matched_nodes[1])
    /\ ~IsNone(matched_nodes[2])
    /\ objects[1].id # objects[2].id
    /\ Len(mappings) = 1
    /\ EarlierMappings \subseteq db_mappings
    /\ Cardinality(db_mappings) = 2

\* the exact coordinate of node j lies inside the rectangle of half-width
\* rtree_search_box around object i
CoordinateInside(j, i) ==
    LET area == search_area(objects[i], rtree_search_box)
    IN  /\ area.min_x <= Val(nodes[j].longitude)
        /\ Val(nodes[j].longitude) <= area.max_x
        /\ area.min_y <= Val(nodes[j].latitude)
        /\ Val(nodes[j].latitude) <= area.max_y

\* C11 as stated: the margin of the index entries does not affect the
\* result: an object without exact-id match gets a node only if the exact
\* coordinate of the node lies inside the object's rectangle of half-width
\* rtree_search_box.
C11_MatchedOnlyInsideSearchBox ==
    Returned =>
        \A i \in 1..Len(objects) :
            ~HasExactId(i) =>
                \A j \in 1..Len(nodes) :
                    matched_nodes[i] = Some(nodes[j]) => CoordinateInside(j, i)

(***************************************************************************)
(* main.py                                                                 *)
(***************************************************************************)
\* select_nodes(300) in compare_db_data_to_api
CompareLimit == 300

\* the nodes the Overpass query returns: the nodes of the remote map
download(remote) == RowsInIdOrder(remote)

\* download_and_store_data: the table nodes afterwards
download_and_store_data(table, remote) == upsert_nodes(table, download(remote))

\* x['lat'] or x['lon'] raises KeyError
PrepareRaises(to_import) ==
    \E i \in 1..Len(to_import) : IsNone(to_import[i].lat) \/ IsNone(to_import[i].lon)

\* {'lat': x['lat'], 'lon': x['lon'], 'tag': x.get('tag', {})}
Prepared(x) ==
    [lat |-> x.lat, lon |-> x.lon, tag |-> IF IsNone(x.tag) THEN <<>> ELSE Val(x.tag)]

prepared_objects_to_import(to_import) ==
    [i \in 1..Len(to_import) |-> Prepared(to_import[i])]

\* import_data after match_objects has returned r: the filter on the stored
\* mappings, the creation of the missing nodes, their storage
ImportAfterMatch(d, r, table, maps, remote, fail_at) ==
    LET m == NodeIdMappings(r.matched, d)
        maps1 == upsert_node_id_mappings(maps, m)
        ids == object_ids_in_osm(maps1)
        objects_to_import == SelectSeq(d, LAMBDA x : x.id \notin ids)
        objects_already_in_osm == SelectSeq(d, LAMBDA x : x.id \in ids)
        idle == [pc |-> "start", results |-> <<>>, calls |-> <<>>, remote |-> remote]
    IN  IF PrepareRaises(objects_to_import)
        THEN [pc |-> "KeyError", results |-> <<>>, mappings |-> m, db_mappings |-> maps1,
              db_nodes |-> table, api |-> idle, api_input |-> <<>>]
        ELSE LET input == prepared_objects_to_import(objects_to_import)
                 c == create_nodes(input, remote, fail_at)
             IN  IF c.pc = "raised"
                 THEN [pc |-> "raised", results |-> <<>>, mappings |-> m,
                       db_mappings |-> maps1, db_nodes |-> table, api |-> c,
                       api_input |-> input]
                 ELSE [pc |-> "returned",
                       results |-> [objects_already_in_osm |-> objects_already_in_osm,
                                    objects_imported_to_osm |-> objects_to_import],
                       mappings |-> m, db_mappings |-> maps1,
                       db_nodes |-> upsert_nodes(table, c.results), api |-> c,
                       api_input |-> input]

\* import_data with the defaults of tag_with_id and rtree_search_box
import_data(d, table, maps, remote, fail_at) ==
    LET table1 == download_and_store_data(table, remote)
        ns == select_nodes(table1, 0)
        r == match_objects(d, ns, "ref", DefaultSearchBox)
        idle == [pc |-> "start", results |-> <<>>, calls |-> <<>>, remote |-> remote]
    IN  IF r.pc = "TypeError"
        THEN [pc |-> "TypeError", results |-> <<>>, nodes |-> ns, match |-> r,
              mappings |-> <<>>, db_mappings |-> maps, db_nodes |-> table1,
              api |-> idle, api_input |-> <<>>]
        ELSE [nodes |-> ns, match |-> r]
             @@ ImportAfterMatch(d, r, table1, maps, remote, fail_at)

\* the outcome of the comparison of a stored node with the API's answer
Classify(dbnode, nodes_in_osm) ==
    IF dbnode.id \notin DOMAIN nodes_in_osm THEN "not found"
    ELSE LET osmnode == nodes_in_osm[dbnode.id]
         IN  IF osmnode.version = dbnode.version THEN "unchanged"
             ELSE IF osmnode.version > dbnode.version THEN "new version"
             ELSE "older version"

\* osm_api.list_nodes_as_dict: the nodes the remote map holds among the ids
list_nodes_as_dict(list_of_ids, remote) ==
    [x \in SeqToSet(list_of_ids) \cap DOMAIN remote |-> remote[x]]

\* a loop that ends at the first node in error
RECURSIVE CompareLoop_StopsAtError(_, _, _)
CompareLoop_StopsAtError(ns, nodes_in_osm, acc) ==
    IF ns = <<>> THEN acc
    ELSE LET dbnode == Head(ns)
             c == Classify(dbnode, nodes_in_osm)
         IN  CASE c = "unchanged" ->
                    CompareLoop_StopsAtError(Tail(ns), nodes_in_osm,
                        [acc EXCEPT !.unchanged = Append(@, dbnode)])
               [] c = "new version" ->
                    CompareLoop_StopsAtError(Tail(ns), nodes_in_osm,
                        [acc EXCEPT !.new_version_in_osm =
                            Append(@, [old |-> dbnode, new |-> nodes_in_osm[dbnode.id]])])
               [] OTHER ->
                    [acc EXCEPT !.errors = Append(@, [id |-> dbnode.id, error |-> c])]

\* the loop of compare_db_data_to_api over the stored nodes
RECURSIVE CompareLoop(_, _, _)
CompareLoop(ns, nodes_in_osm, acc) ==
    IF ns = <<>> THEN acc
    ELSE LET dbnode == Head(ns)
             c == Classify(dbnode, nodes_in_osm)
         IN  CompareLoop(Tail(ns), nodes_in_osm,
                 CASE c = "unchanged" ->
                        [acc EXCEPT !.unchanged = Append(@, dbnode)]
                   [] c = "new version" ->
                        [acc EXCEPT !.new_version_in_osm =
                            Append(@, [old |-> dbnode, new |-> nodes_in_osm[dbnode.id]])]
                   [] OTHER ->
                        [acc EXCEPT !.errors = Append(@, [id |-> dbnode.id, error |-> c])])

\* all([x.new.latitude, x.new.longitude])
HasCoordinates(n) == TruthyNum(n.latitude) /\ TruthyNum(n.longitude)

\* the table nodes after the update of compare_db_data_to_api
UpdateDataInDb(table, new_version_in_osm) ==
    LET news == [i \in 1..Len(new_version_in_osm) |-> new_version_in_osm[i].new]
        nodes_to_update == SelectSeq(news, HasCoordinates)
        deleted == SelectSeq(news, LAMBDA n : ~HasCoordinates(n))
        nodes_to_delete == [i \in 1..Len(deleted) |-> deleted[i].id]
    IN  delete_nodes(upsert_nodes(table, nodes_to_update), nodes_to_delete)

compare_db_data_to_api(table, remote, update) ==
    LET batch == select_nodes(table, CompareLimit)
        nodes_ids == [i \in 1..Len(batch) |-> batch[i].id]
        nodes_in_osm == list_nodes_as_dict(nodes_ids, remote)
        acc == CompareLoop(batch, nodes_in_osm,
                   [unchanged |-> <<>>, new_version_in_osm |-> <<>>, errors |-> <<>>])
    IN  [batch |-> batch,
         results |-> [unchanged |-> acc.unchanged,
                      new_version_in_osm |-> acc.new_version_in_osm],
         errors |-> acc.errors,
         db_nodes |-> IF update /\ Len(acc.new_version_in_osm) > 0
                      THEN UpdateDataInDb(table, acc.new_version_in_osm)
                      ELSE table]

(***************************************************************************)
(* Inputs of create_nodes, update_nodes, import_data and                   *)
(* compare_db_data_to_api                                                  *)
(***************************************************************************)
\* a node of the remote map: 4 units north of the reference point without
\* or with the id tag "A", or 6 units east of it without tags
RemoteShapes ==
    { << <<Some(1000004), Some(400000)>>, <<>> >>,
      << <<Some(1000004), Some(400000)>>, [ref |-> "A"] >>,
      << <<Some(1000000), Some(400006)>>, <<>> >> }

\* remote maps with the nodes 1, 2, ...
RemoteMaps ==
    UNION { { [i \in 1..n |-> Node(i, 1, sh[i][1], sh[i][2])] :
                sh \in [1..n -> RemoteShapes] } :
            n \in 0..MaxRemoteNodes }

\* the dictionaries given to create_nodes
DictShapes ==
    { [lat |-> Some(1000000), lon |-> Some(400000), tag |-> <<>>],
      [lat |-> Some(1000000), lon |-> Some(400000), tag |-> [ref |-> "A"]] }

DictLists == UNION { [1..n -> DictShapes] : n \in 0..MaxBatch }

\* the nodes given to update_nodes: version 1 of the nodes 1, 2, ...
UpdateLists ==
    UNION { { [i \in 1..n |-> Node(i, 1, sh[i][1], sh[i][2])] :
                sh \in [1..n -> RemoteShapes] } :
            n \in 0..MaxBatch }

\* an object of import_data: with every key; with the keys of match_objects
\* only ('id', 'latitude', 'longitude'); with the keys of the creation
\* request only ('id', 'lat', 'lon')
ImportObject(id, latlon, short, tag) ==
    [id |-> id, latitude |-> latlon[1], longitude |-> latlon[2],
     lat |-> short[1], lon |-> short[2], tag |-> tag]

AtReference == <<Some(1000000), Some(400000)>>

\* the objects: "A" whose tags carry its identifier under 'ref'; "B" without
\* 'tag' key; "B" whose tags carry another value under 'ref'; "A" without
\* 'lat' and 'lon'; "B" without 'latitude' and 'longitude'
ImportShapes ==
    { ImportObject("A", AtReference, AtReference, Some([ref |-> "A"])),
      ImportObject("B", AtReference, AtReference, None),
      ImportObject("B", AtReference, AtReference, Some([ref |-> "A"])),
      ImportObject("A", AtReference, <<None, None>>, None),
      ImportObject("B", <<None, None>>, AtReference, None) }

ImportLists == UNION { [1..n -> ImportShapes] : n \in 0..MaxObjects }

\* a stored node: version 2 of the node, 4 units north of the reference point
Stored(i) == Node(i, 2, <<Some(1000004), Some(400000)>>, <<>>)

StoredTables ==
    { [i \in 1..n |-> Stored(i)] : n \in 0..MaxStored }

\* what the remote map holds of a stored node: nothing, an older version,
\* the same version, a newer version (moved, moved onto latitude 0, deleted)
RemoteStates(i) ==
    { None,
      Some(Node(i, 1, <<Some(1000004), Some(400000)>>, <<>>)),
      Some(Node(i, 2, <<Some(1000004), Some(400000)>>, <<>>)),
      Some(Node(i, 3, <<Some(1000000), Some(400006)>>, <<>>)),
      Some(Node(i, 3, <<Some(0), Some(400006)>>, <<>>)),
      Some(Node(i, 3, <<None, None>>, <<>>)) }

\* the remote maps for a local store of n nodes
RemoteMapsFor(n) ==
    { [i \in { j \in 1..n : ~IsNone(st[j]) } |-> Val(st[i])] :
        st \in { f \in [1..n -> UNION { RemoteStates(i) : i \in 1..n }] :
                    \A i \in 1..n : f[i] \in RemoteStates(i) } }

(***************************************************************************)
(* The calls of create_nodes and update_nodes                              *)
(***************************************************************************)
InitEdit ==
    /\ IdleMatch
    /\ db_mappings = {}
    /\ db_nodes = <<>>
    /\ osm \in RemoteMaps
    /\ IdleApi
    /\ IdleImport
    /\ IdleCompare

CreateNodes(list_of_dicts, fail_at) ==
    /\ api_pc = "start"
    /\ \E c \in {create_nodes(list_of_dicts, osm, fail_at)} :
          /\ api_input' = list_of_dicts
          /\ api_calls' = c.calls
          /\ api_pc' = c.pc
          /\ api_results' = c.results
          /\ osm' = c.remote
    /\ UNCHANGED <<matchVars, db_mappings, db_nodes, importVars, compareVars>>

UpdateNodes(list_of_nodes, fail_at) ==
    /\ api_pc = "start"
    /\ \E c \in {update_nodes(list_of_nodes, osm, fail_at)} :
          /\ api_input' = list_of_nodes
          /\ api_calls' = c.calls
          /\ api_pc' = c.pc
          /\ api_results' = c.results
          /\ osm' = c.remote
    /\ UNCHANGED <<matchVars, db_mappings, db_nodes, importVars, compareVars>>

\* one call per behaviour; the inputs are enumerated only while none was made
CreateNodesCall ==
    /\ api_pc = "start"
    /\ \E l \in DictLists : \E fail_at \in 0..(Len(l) + 2) : CreateNodes(l, fail_at)

UpdateNodesCall ==
    /\ api_pc = "start"
    /\ \E l \in UpdateLists : \E fail_at \in 0..(Len(l) + 2) : UpdateNodes(l, fail_at)

NextEdit == CreateNodesCall \/ UpdateNodesCall

SpecEdit == InitEdit /\ [][NextEdit]_vars

(***************************************************************************)
(* The call of import_data                                                 *)
(***************************************************************************)
InitImport ==
    /\ IdleMatch
    /\ db_mappings \in { {}, EarlierMappings }
    /\ db_nodes = <<>>
    /\ osm \in RemoteMaps
    /\ IdleApi
    /\ data \in ImportLists
    /\ id_pc = "start"
    /\ id_results = <<>>
    /\ id_run = 0
    /\ id_earlier = {}
    /\ IdleCompare

\* objects_to_import of the last run: the positions of the objects whose
\* identifier the stored mappings do not hold
ObjectsToImportPositions ==
    { i \in 1..Len(data) : data[i].id \notin object_ids_in_osm(db_mappings) }

\* the k-th position, in list order, of a set of positions
KthPosition(S, k) ==
    CHOOSE i \in S : Cardinality({ h \in S : h <= i }) = k

\* the objects for which the last run sent a node-creation request: the
\* k-th request is for the k-th object of objects_to_import
RequestedPositions ==
    { KthPosition(ObjectsToImportPositions, k) :
        k \in 1..Len(SelectSeq(api_calls, LAMBDA c : c.op = "NodeCreate")) }

\* the objects for which the last run created a node
CreatedPositions ==
    { KthPosition(ObjectsToImportPositions, k) :
        k \in 1..Len(SelectSeq(api_calls, LAMBDA c : c.op = "NodeCreate" /\ c.ok)) }

\* one run of import_data over data, from the tables and the remote map the
\* runs before it have left
ImportData(fail_at) ==
    /\ id_run < MaxRuns
    /\ id_run' = id_run + 1
    /\ id_earlier' = id_earlier \cup CreatedPositions
    /\ \E r \in {import_data(data, db_nodes, db_mappings, osm, fail_at)} :
          /\ id_pc' = r.pc
          /\ id_results' = r.results
          /\ objects' = data
          /\ nodes' = r.nodes
          /\ tag_with_id' = "ref"
          /\ rtree_search_box' = DefaultSearchBox
          /\ store_in_db' = TRUE
          /\ mo_pc' = r.match.pc
          /\ matched_nodes' = r.match.matched
          /\ mappings' = r.mappings
          /\ db_mappings' = r.db_mappings
          /\ db_nodes' = r.db_nodes
          /\ api_input' = r.api_input
          /\ api_calls' = r.api.calls
          /\ api_pc' = r.api.pc
          /\ api_results' = r.api.results
          /\ osm' = r.api.remote
    /\ UNCHANGED <<data, compareVars>>

NextImport ==
    /\ id_run < MaxRuns
    /\ \E fail_at \in 0..(Len(data) + 2) : ImportData(fail_at)

SpecImport == InitImport /\ [][NextImport]_vars

(***************************************************************************)
(* The call of compare_db_data_to_api                                      *)
(***************************************************************************)
InitCompare ==
    /\ IdleMatch
    /\ db_mappings = {}
    /\ db_nodes \in StoredTables
    /\ osm \in RemoteMapsFor(Len(db_nodes))
    /\ IdleApi
    /\ IdleImport
    /\ update_data_in_db \in BOOLEAN
    /\ nodes_in_db = <<>>
    /\ cmp_pc = "start"
    /\ cmp_results = <<>>
    /\ cmp_errors = <<>>

CompareDbDataToApi ==
    /\ cmp_pc = "start"
    /\ \E r \in {compare_db_data_to_api(db_nodes, osm, update_data_in_db)} :
          /\ nodes_in_db' = r.batch
          /\ cmp_results' = r.results
          /\ cmp_errors' = r.errors
          /\ db_nodes' = r.db_nodes
    /\ cmp_pc' = "returned"
    /\ UNCHANGED <<matchVars, db_mappings, osm, apiVars, importVars, update_data_in_db>>

SpecCompare == InitCompare /\ [][CompareDbDataToApi]_vars

(***************************************************************************)
(* Properties of import_data, create_nodes and update_nodes                *)
(***************************************************************************)
\* the positions of the objects without match and without stored mapping
MissingPositions ==
    { i \in 1..Len(data) :
        /\ IsNone(matched_nodes[i])
        /\ data[i].id \notin object_ids_in_osm(db_mappings) }

\* the node-creation requests sent
CreationRequests == SelectSeq(api_calls, LAMBDA c : c.op = "NodeCreate")

\* C7 as stated, for the calls that no failure of the editing API ends:
\* every object matched in this run is listed in objects_already_in_osm and
\* not created, every object without match and without stored mapping is
\* created exactly once, and the two lists partition the input.
C7_CreatedIffNotInOsm ==
    (id_pc \in {"returned", "KeyError"}) =>
        /\ Len(CreationRequests) = Cardinality(MissingPositions)
        /\ \A k \in 1..Len(CreationRequests) :
              \E i \in MissingPositions : CreationRequests[k].arg = Prepared(data[i])
        /\ (id_pc = "returned") =>
              /\ \A i \in 1..Len(data) :
                    ~IsNone(matched_nodes[i]) =>
                        \E k \in 1..Len(id_results.objects_already_in_osm) :
                            id_results.objects_already_in_osm[k] = data[i]
              /\ Len(id_results.objects_already_in_osm)
                    + Len(id_results.objects_imported_to_osm) = Len(data)

\* C8 as stated: one edit session is opened, by the first request, and once
\* it is open the call ends, on every path, with the request that closes it.
C8_SessionClosedOnEveryPath ==
    (api_pc # "start") =>
        /\ api_calls[1].op = "ChangesetCreate"
        /\ \A k \in 2..Len(api_calls) : api_calls[k].op # "ChangesetCreate"
        /\ api_calls[1].ok => api_calls[Len(api_calls)].op = "ChangesetClose"

\* a node-creation request of the batch failed
CreationFailed ==
    \E k \in 1..Len(api_calls) : api_calls[k].op = "NodeCreate" /\ ~api_calls[k].ok

\* C9 as stated: when a node-creation request of the batch fails, the
\* caller gets no partial list and no node of the batch stays in the remote
\* map without being in the local store.
C9_FailedBatchLeavesNothing ==
    (id_pc = "raised" /\ CreationFailed) =>
        /\ id_results = <<>>
        /\ api_results = <<>>
        /\ DOMAIN osm \subseteq DOMAIN db_nodes

\* C12 as stated: an object for which a run before the last one created a
\* node gets no node-creation request in the last run, and when the last
\* run returns the object is listed in objects_already_in_osm.
C12_NoObjectCreatedTwice ==
    \A i \in id_earlier :
        /\ i \notin RequestedPositions
        /\ (id_pc = "returned") =>
              \E k \in 1..Len(id_results.objects_already_in_osm) :
                  id_results.objects_already_in_osm[k] = data[i]

(***************************************************************************)
(* Properties of compare_db_data_to_api                                    *)
(***************************************************************************)
Count(seq, P(_)) == Cardinality({ i \in 1..Len(seq) : P(seq[i]) })

\* C10: every node of the batch has exactly one of the four outcomes, the
\* one its remote version calls for, whatever the outcomes of the nodes
\* before it are.
C10_OneOutcomePerNode ==
    (cmp_pc = "returned") =>
        /\ nodes_in_db = RowsInIdOrder(db_nodes) \/ update_data_in_db
        /\ \A k \in 1..Len(nodes_in_db) :
              LET n == nodes_in_db[k]
                  present == n.id \in DOMAIN osm
                  unchanged == Count(cmp_results.unchanged, LAMBDA x : x = n)
                  upgrade == Count(cmp_results.new_version_in_osm,
                                   LAMBDA x : x.old = n /\ present /\ x.new = osm[n.id])
                  older == Count(cmp_errors,
                                 LAMBDA e : e.id = n.id /\ e.error = "older version")
                  absent == Count(cmp_errors,
                                  LAMBDA e : e.id = n.id /\ e.error = "not found")
              IN  /\ unchanged + upgrade + older + absent = 1
                  /\ unchanged = 1 <=> (present /\ osm[n.id].version = n.version)
                  /\ upgrade = 1 <=> (present /\ osm[n.id].version > n.version)
                  /\ older = 1 <=> (present /\ osm[n.id].version < n.version)
                  /\ absent = 1 <=> ~present
        /\ Len(cmp_results.unchanged) + Len(cmp_results.new_version_in_osm)
              + Len(cmp_errors) = Len(nodes_in_db)

\* C10 witness: the first node of the batch ends in an error and the second
\* is recorded with its newer version.
C10_Witness ==
    /\ cmp_pc = "returned"
    /\ Len(nodes_in_db) = 2
    /\ Len(cmp_errors) = 1
    /\ cmp_errors[1].id = 1
    /\ Len(cmp_results.new_version_in_osm) = 1
    /\ cmp_results.new_version_in_osm[1].old.id = 2

\* C13 as stated: with update_data_in_db set, a newer version with both
\* coordinates present, a coordinate equal to 0 included, is in the local
\* store afterwards, a node leaves the store only when both coordinates of
\* its newer version are absent, and the unchanged nodes stay as they were.
C13_DeletedOnlyWithoutCoordinates ==
    (cmp_pc = "returned" /\ update_data_in_db) =>
        /\ \A k \in 1..Len(cmp_results.new_version_in_osm) :
              LET new == cmp_results.new_version_in_osm[k].new
              IN  IF IsNone(new.latitude) /\ IsNone(new.longitude)
                  THEN new.id \notin DOMAIN db_nodes
                  ELSE /\ new.id \in DOMAIN db_nodes
                       /\ db_nodes[new.id] = new
        /\ \A k \in 1..Len(cmp_results.unchanged) :
              LET old == cmp_results.unchanged[k]
              IN  /\ old.id \in DOMAIN db_nodes
                  /\ db_nodes[old.id] = old

====
